---------------------------- MODULE Spec2Model ----------------------------
(***************************************************************************)
(* tslox: the Resolver pass (static scope resolution over the AST) and the *)
(* LoxClass runtime object (method lookup, instantiation, arity).          *)
(*                                                                         *)
(* The Resolver is a recursive visitor.  Its recursion is modelled with an *)
(* explicit call stack `stack`: one frame per resolve(statements),         *)
(* visitBlockStmt, resolveFunction or visitClassStmt activation that is    *)
(* inside its loop over child statements (or methods), holding the         *)
(* children still to visit.  Expressions hold no statements, so an         *)
(* expression is resolved inside the action of the statement that owns it, *)
(* by the recursive operator ResolveExpr.                                  *)
(*                                                                         *)
(* The program resolved is an input: a body of statements plugged into a   *)
(* nest of enclosing blocks, functions and classes.                        *)
(***************************************************************************)
EXTENDS Integers, Sequences, FiniteSets, TLC

VARIABLES
  scopes,           \* Resolver.scopes: the stack of Scope objects (own properties)
  currentFunction,  \* Resolver.currentFunction
  currentClass,     \* Resolver.currentClass
  stack,            \* the visitor's call stack (frames of the statement loops)
  reported,         \* the errorReporter.report calls made so far, in order
  resolved,         \* the interpreter.resolve calls made so far, in order
  last,             \* the last handler that ran, its statement and the state it saw
  classes,          \* the LoxClass objects constructed so far
  instances,        \* the LoxInstance objects created so far (class of each)
  ret               \* the last LoxClass operation, the calls it made, its result

resolverVars == <<scopes, currentFunction, currentClass, stack, reported, resolved, last>>
classVars == <<classes, instances, ret>>
vars == <<scopes, currentFunction, currentClass, stack, reported, resolved, last,
          classes, instances, ret>>

(***************************************************************************)
(* Bounds                                                                  *)
(***************************************************************************)
MaxNest == 2         \* blocks, functions and classes enclosing the body resolved
MaxClasses == 2      \* LoxClass objects constructed
MaxInstances == 2    \* LoxInstance objects created

(***************************************************************************)
(* JavaScript plain objects.  A Scope and a method table are plain         *)
(* objects: `key in obj` is true for an own property and for a property    *)
(* inherited from Object.prototype, and obj[key] reads either.             *)
(***************************************************************************)
ObjectPrototypeKeys ==
  {"constructor", "toString", "valueOf", "hasOwnProperty", "isPrototypeOf",
   "propertyIsEnumerable", "toLocaleString", "__proto__"}

EmptyObject == [k \in {} |-> TRUE]

HasOwn(obj, key) == key \in DOMAIN obj

\* key in obj
HasProperty(obj, key) == HasOwn(obj, key) \/ key \in ObjectPrototypeKeys

\* obj[key] = value
Put(obj, key, value) ==
  [k \in DOMAIN obj \cup {key} |-> IF k = key THEN value ELSE obj[k]]

\* obj[key] === false: no property of Object.prototype has the value false
IsFalse(obj, key) == HasOwn(obj, key) /\ obj[key] = FALSE

(***************************************************************************)
(* Tokens, diagnostics, the AST's expressions                              *)
(***************************************************************************)
Token(lexeme, line) == [lexeme |-> lexeme, line |-> line]

ResolvingError(message, line) == [message |-> message, line |-> line]

NoExpr == [kind |-> "null"]
LiteralExpr(id) == [kind |-> "Literal", id |-> id]
VariableExpr(id, name) == [kind |-> "Variable", id |-> id, name |-> name]
ThisExpr(id, line) == [kind |-> "This", id |-> id, keyword |-> Token("this", line)]
SuperExpr(id, line) == [kind |-> "Super", id |-> id, keyword |-> Token("super", line)]
AssignExpr(id, name, value) ==
  [kind |-> "Assign", id |-> id, name |-> name, value |-> value]
BinaryExpr(id, left, right) ==
  [kind |-> "Binary", id |-> id, left |-> left, right |-> right]
LogicalExpr(id, left, right) ==
  [kind |-> "Logical", id |-> id, left |-> left, right |-> right]
UnaryExpr(id, right) == [kind |-> "Unary", id |-> id, right |-> right]
GroupingExpr(id, expression) == [kind |-> "Grouping", id |-> id, expression |-> expression]
CallExpr(id, callee, args) == [kind |-> "Call", id |-> id, callee |-> callee, args |-> args]
GetExpr(id, object) == [kind |-> "Get", id |-> id, object |-> object]
SetExpr(id, object, value) ==
  [kind |-> "Set", id |-> id, object |-> object, value |-> value]


(***************************************************************************)
(* class Stack extends Array<Scope>                                        *)
(***************************************************************************)
isEmpty(s) == Len(s) < 1

peek(s) == s[Len(s)]

\* this.scopes.push({})
beginScope(s) == Append(s, EmptyObject)

\* this.scopes.pop(): Array.prototype.pop leaves an empty array empty
endScope(s) == IF Len(s) = 0 THEN s ELSE SubSeq(s, 1, Len(s) - 1)

\* this.scopes.peek()[key] = value
SetPeek(s, key, value) == [s EXCEPT ![Len(s)] = Put(s[Len(s)], key, value)]

(***************************************************************************)
(* What a handler hands to its collaborators: the diagnostics it reports   *)
(* and the depths it records, each in call order.                          *)
(***************************************************************************)
Out(rep, res) == [reported |-> rep, resolved |-> res]

NoOut == Out(<<>>, <<>>)

Cat(o1, o2) == Out(o1.reported \o o2.reported, o1.resolved \o o2.resolved)

(***************************************************************************)
(* Resolver.declare, Resolver.define, Resolver.resolveLocal                *)
(***************************************************************************)
declareErrors(s, name) ==
  IF isEmpty(s) THEN <<>>
  ELSE IF HasProperty(peek(s), name.lexeme)
       THEN <<ResolvingError("Already variable with this name in scope", name.line)>>
       ELSE <<>>

declareScopes(s, name) ==
  IF isEmpty(s) THEN s ELSE SetPeek(s, name.lexeme, FALSE)

define(s, name) ==
  IF isEmpty(s) THEN s ELSE SetPeek(s, name.lexeme, TRUE)

\* the loop of resolveLocal from Array index i - 1 down to 0
RECURSIVE resolveLocalFrom(_, _, _, _)
resolveLocalFrom(s, i, expr, name) ==
  IF i < 1 THEN <<>>
  ELSE IF HasProperty(s[i], name.lexeme)
       THEN <<[expr |-> expr.id, depth |-> Len(s) - i]>>
       ELSE resolveLocalFrom(s, i - 1, expr, name)

resolveLocal(s, expr, name) == resolveLocalFrom(s, Len(s), expr, name)

(***************************************************************************)
(* The expression visitors.  None of them changes the Resolver's fields.   *)
(***************************************************************************)
\* visitVariableExpr returning once it has reported the error
visitVariableExprReturning(expr, s) ==
  IF ~isEmpty(s) /\ IsFalse(peek(s), expr.name.lexeme)
  THEN Out(<<ResolvingError("Can't read local variable in its own initializer",
                            expr.name.line)>>,
           <<>>)
  ELSE Out(<<>>, resolveLocal(s, expr, expr.name))

visitVariableExpr(expr, s) ==
  Out(IF ~isEmpty(s) /\ IsFalse(peek(s), expr.name.lexeme)
      THEN <<ResolvingError("Can't read local variable in its own initializer",
                            expr.name.line)>>
      ELSE <<>>,
      resolveLocal(s, expr, expr.name))

\* visitSuperExpr returning once it has reported an error, as visitThisExpr does
visitSuperExprReturning(expr, s, cls) ==
  IF cls = "None"
  THEN Out(<<ResolvingError("Can't use 'super' outside of class", expr.keyword.line)>>,
           <<>>)
  ELSE IF cls # "Subclass"
       THEN Out(<<ResolvingError("Can't use 'super' in a class with no superclass",
                                 expr.keyword.line)>>,
                <<>>)
       ELSE Out(<<>>, resolveLocal(s, expr, expr.keyword))

visitSuperExpr(expr, s, cls) ==
  Out(IF cls = "None"
      THEN <<ResolvingError("Can't use 'super' outside of class", expr.keyword.line)>>
      ELSE IF cls # "Subclass"
           THEN <<ResolvingError("Can't use 'super' in a class with no superclass",
                                 expr.keyword.line)>>
           ELSE <<>>,
      resolveLocal(s, expr, expr.keyword))

visitThisExpr(expr, s, cls) ==
  IF cls = "None"
  THEN Out(<<ResolvingError("Can't use 'this' outside of a class", expr.keyword.line)>>,
           <<>>)
  ELSE Out(<<>>, resolveLocal(s, expr, expr.keyword))

\* resolve(target) for an expression: target.accept(this)
RECURSIVE ResolveExpr(_, _, _)

\* the loop over expr.args in visitCallExpr, from args[i] on
RECURSIVE ResolveArgs(_, _, _, _)
ResolveArgs(args, i, s, cls) ==
  IF i > Len(args) THEN NoOut
  ELSE Cat(ResolveExpr(args[i], s, cls), ResolveArgs(args, i + 1, s, cls))

ResolveExpr(expr, s, cls) ==
  CASE expr.kind = "Literal" -> NoOut
    [] expr.kind = "Variable" -> visitVariableExpr(expr, s)
    [] expr.kind = "This" -> visitThisExpr(expr, s, cls)
    [] expr.kind = "Super" -> visitSuperExpr(expr, s, cls)
    [] expr.kind = "Assign" ->
         Cat(ResolveExpr(expr.value, s, cls), Out(<<>>, resolveLocal(s, expr, expr.name)))
    [] expr.kind = "Binary" ->
         Cat(ResolveExpr(expr.left, s, cls), ResolveExpr(expr.right, s, cls))
    [] expr.kind = "Logical" ->
         Cat(ResolveExpr(expr.right, s, cls), ResolveExpr(expr.left, s, cls))
    [] expr.kind = "Unary" -> ResolveExpr(expr.right, s, cls)
    [] expr.kind = "Grouping" -> ResolveExpr(expr.expression, s, cls)
    [] expr.kind = "Call" ->
         Cat(ResolveExpr(expr.callee, s, cls), ResolveArgs(expr.args, 1, s, cls))
    [] expr.kind = "Get" -> ResolveExpr(expr.object, s, cls)
    [] expr.kind = "Set" ->
         Cat(ResolveExpr(expr.value, s, cls), ResolveExpr(expr.object, s, cls))

\* an optional expression: `if (x !== null) this.resolve(x)`
ResolveOptional(expr, s, cls) ==
  IF expr.kind = "null" THEN NoOut ELSE ResolveExpr(expr, s, cls)

(***************************************************************************)
(* The statements of the AST                                               *)
(***************************************************************************)
BlockStmt(statements) == [kind |-> "Block", statements |-> statements]
VarStmt(name, initializer) == [kind |-> "Var", name |-> name, initializer |-> initializer]
FunctionStmt(name, params, body) ==
  [kind |-> "Function", name |-> name, params |-> params, body |-> body]
ClassStmt(name, superclass, methods) ==
  [kind |-> "Class", name |-> name, superclass |-> superclass, methods |-> methods]
ReturnStmt(keyword, value) == [kind |-> "Return", keyword |-> keyword, value |-> value]
ExpressionStmt(expression) == [kind |-> "Expression", expression |-> expression]
PrintStmt(expression) == [kind |-> "Print", expression |-> expression]
IfStmt(condition, thenBranch, elseBranch) ==
  [kind |-> "If", condition |-> condition, thenBranch |-> thenBranch,
   elseBranch |-> elseBranch]
WhileStmt(condition, body) == [kind |-> "While", condition |-> condition, body |-> body]
NoStmt == [kind |-> "null"]

(***************************************************************************)
(* Frames of the visitor's call stack.  A frame holds the children its     *)
(* loop has still to visit, the local variable of its activation           *)
(* (enclosingFunction, enclosingClass), the statement being resolved and   *)
(* the Resolver's fields when the statement's handler was entered.         *)
(***************************************************************************)
\* the Resolver's fields, and the number of calls made to its collaborators
Fields == [scopes |-> scopes, currentFunction |-> currentFunction,
           currentClass |-> currentClass,
           reported |-> Len(reported), resolved |-> Len(resolved)]

Frame(pc, todo, enclosing, stmt, before) ==
  [pc |-> pc, todo |-> todo, enclosing |-> enclosing, stmt |-> stmt, before |-> before]

top == stack[Len(stack)]

\* the statement the innermost loop visits next
next == top.todo[1]

\* the activations that call resolve on statements: the loop
\* `for (const statement of target) this.resolve(statement)`, and the
\* branches of visitIfStmt and the body of visitWhileStmt
AtStatement(kind) ==
  /\ Len(stack) > 0
  /\ top.pc \in {"resolve", "visitBlockStmt", "resolveFunction", "visitIfStmt",
                 "visitWhileStmt"}
  /\ top.todo # <<>>
  /\ next.kind = kind

AtEnd(pc) == Len(stack) > 0 /\ top.pc = pc /\ top.todo = <<>>

\* the call stack with the innermost loop moved on by one child
Advanced == [stack EXCEPT ![Len(stack)].todo = Tail(@)]

Returned == SubSeq(stack, 1, Len(stack) - 1)

\* a handler's activation record: the handler, its statement, the Resolver's
\* fields it was entered with, and what its caller's loop has still to visit
Ran(op, stmt, before, rest) ==
  [op |-> op, stmt |-> stmt, before |-> before, rest |-> rest]

\* the loop over func.params in resolveFunction, from params[i] on:
\* declare(param); define(param)
RECURSIVE paramsScopes(_, _, _)
paramsScopes(s, params, i) ==
  IF i > Len(params) THEN s
  ELSE paramsScopes(define(declareScopes(s, params[i]), params[i]), params, i + 1)

RECURSIVE paramsErrors(_, _, _)
paramsErrors(s, params, i) ==
  IF i > Len(params) THEN <<>>
  ELSE declareErrors(s, params[i])
         \o paramsErrors(define(declareScopes(s, params[i]), params[i]), params, i + 1)

(***************************************************************************)
(* The statement visitors                                                  *)
(***************************************************************************)
\* visitBlockStmt up to its loop over stmt.statements
visitBlockStmt ==
  /\ AtStatement("Block")
  /\ scopes' = beginScope(scopes)
  /\ stack' = Append(Advanced, Frame("visitBlockStmt", next.statements, "-", next, Fields))
  /\ last' = Ran("visitBlockStmt", next, Fields, Tail(top.todo))
  /\ UNCHANGED <<currentFunction, currentClass, reported, resolved>>
  /\ UNCHANGED classVars

\* visitBlockStmt after its loop: this.endScope()
returnFromBlock ==
  /\ AtEnd("visitBlockStmt")
  /\ scopes' = endScope(scopes)
  /\ stack' = Returned
  /\ last' = Ran("returnFromBlock", top.stmt, top.before, stack[Len(stack) - 1].todo)
  /\ UNCHANGED <<currentFunction, currentClass, reported, resolved>>
  /\ UNCHANGED classVars

visitVarStmt ==
  /\ AtStatement("Var")
  /\ LET declared == declareScopes(scopes, next.name)
         init == ResolveOptional(next.initializer, declared, currentClass)
     IN /\ scopes' = define(declared, next.name)
        /\ reported' = reported \o declareErrors(scopes, next.name) \o init.reported
        /\ resolved' = resolved \o init.resolved
  /\ stack' = Advanced
  /\ last' = Ran("visitVarStmt", next, Fields, Tail(top.todo))
  /\ UNCHANGED <<currentFunction, currentClass>>
  /\ UNCHANGED classVars

visitExpressionStmt ==
  /\ AtStatement("Expression")
  /\ LET out == ResolveExpr(next.expression, scopes, currentClass)
     IN /\ reported' = reported \o out.reported
        /\ resolved' = resolved \o out.resolved
  /\ stack' = Advanced
  /\ last' = Ran("visitExpressionStmt", next, Fields, Tail(top.todo))
  /\ UNCHANGED <<scopes, currentFunction, currentClass>>
  /\ UNCHANGED classVars

\* visitReturnStmt testing the initializer outside `if (stmt.value !== null)`
returnErrorsOfAnyReturn(fn, stmt) ==
  (IF fn = "None"
   THEN <<ResolvingError("Can't return from top-level code", stmt.keyword.line)>>
   ELSE <<>>)
  \o (IF fn = "Initializer"
      THEN <<ResolvingError("Can't return a value from an initializer",
                            stmt.keyword.line)>>
      ELSE <<>>)

visitPrintStmt ==
  /\ AtStatement("Print")
  /\ LET out == ResolveExpr(next.expression, scopes, currentClass)
     IN /\ reported' = reported \o out.reported
        /\ resolved' = resolved \o out.resolved
  /\ stack' = Advanced
  /\ last' = Ran("visitPrintStmt", next, Fields, Tail(top.todo))
  /\ UNCHANGED <<scopes, currentFunction, currentClass>>
  /\ UNCHANGED classVars

\* visitIfStmt up to resolve(stmt.thenBranch)
visitIfStmt ==
  /\ AtStatement("If")
  /\ LET out == ResolveExpr(next.condition, scopes, currentClass)
     IN /\ reported' = reported \o out.reported
        /\ resolved' = resolved \o out.resolved
  /\ stack' = Append(Advanced,
                     Frame("visitIfStmt",
                           IF next.elseBranch.kind # "null"
                           THEN <<next.thenBranch, next.elseBranch>>
                           ELSE <<next.thenBranch>>,
                           "-", next, Fields))
  /\ last' = Ran("visitIfStmt", next, Fields, Tail(top.todo))
  /\ UNCHANGED <<scopes, currentFunction, currentClass>>
  /\ UNCHANGED classVars

\* visitIfStmt after its branches
returnFromIf ==
  /\ AtEnd("visitIfStmt")
  /\ stack' = Returned
  /\ last' = Ran("returnFromIf", top.stmt, top.before, stack[Len(stack) - 1].todo)
  /\ UNCHANGED <<scopes, currentFunction, currentClass, reported, resolved>>
  /\ UNCHANGED classVars

\* visitWhileStmt up to resolve(stmt.body)
visitWhileStmt ==
  /\ AtStatement("While")
  /\ LET out == ResolveExpr(next.condition, scopes, currentClass)
     IN /\ reported' = reported \o out.reported
        /\ resolved' = resolved \o out.resolved
  /\ stack' = Append(Advanced, Frame("visitWhileStmt", <<next.body>>, "-", next, Fields))
  /\ last' = Ran("visitWhileStmt", next, Fields, Tail(top.todo))
  /\ UNCHANGED <<scopes, currentFunction, currentClass>>
  /\ UNCHANGED classVars

\* visitWhileStmt after its body
returnFromWhile ==
  /\ AtEnd("visitWhileStmt")
  /\ stack' = Returned
  /\ last' = Ran("returnFromWhile", top.stmt, top.before, stack[Len(stack) - 1].todo)
  /\ UNCHANGED <<scopes, currentFunction, currentClass, reported, resolved>>
  /\ UNCHANGED classVars

\* the diagnostics of visitReturnStmt itself
returnErrors(fn, stmt) ==
  (IF fn = "None"
   THEN <<ResolvingError("Can't return from top-level code", stmt.keyword.line)>>
   ELSE <<>>)
  \o (IF stmt.value.kind # "null" /\ fn = "Initializer"
      THEN <<ResolvingError("Can't return a value from an initializer",
                            stmt.keyword.line)>>
      ELSE <<>>)

visitReturnStmt ==
  /\ AtStatement("Return")
  /\ LET value == ResolveOptional(next.value, scopes, currentClass)
     IN /\ reported' = reported \o returnErrors(currentFunction, next) \o value.reported
        /\ resolved' = resolved \o value.resolved
  /\ stack' = Advanced
  /\ last' = Ran("visitReturnStmt", next, Fields, Tail(top.todo))
  /\ UNCHANGED <<scopes, currentFunction, currentClass>>
  /\ UNCHANGED classVars

\* visitFunctionStmt, and resolveFunction up to its resolve(func.body)
visitFunctionStmt ==
  /\ AtStatement("Function")
  /\ LET defined == define(declareScopes(scopes, next.name), next.name)
     IN /\ scopes' = paramsScopes(beginScope(defined), next.params, 1)
        /\ reported' = reported \o declareErrors(scopes, next.name)
                                \o paramsErrors(beginScope(defined), next.params, 1)
  /\ currentFunction' = "Function"
  /\ stack' = Append(Advanced,
                     Frame("resolveFunction", next.body, currentFunction, next, Fields))
  /\ last' = Ran("visitFunctionStmt", next, Fields, Tail(top.todo))
  /\ UNCHANGED <<currentClass, resolved>>
  /\ UNCHANGED classVars

\* resolveFunction without `this.currentFunction = enclosingFunction`
returnFromFunctionKeepingKind ==
  /\ AtEnd("resolveFunction")
  /\ scopes' = endScope(scopes)
  /\ stack' = Returned
  /\ last' = Ran("returnFromFunction", top.stmt, top.before, stack[Len(stack) - 1].todo)
  /\ UNCHANGED <<currentFunction, currentClass, reported, resolved>>
  /\ UNCHANGED classVars

\* resolveFunction after resolve(func.body): endScope, restore currentFunction
returnFromFunction ==
  /\ AtEnd("resolveFunction")
  /\ scopes' = endScope(scopes)
  /\ currentFunction' = top.enclosing
  /\ stack' = Returned
  /\ last' = Ran("returnFromFunction", top.stmt, top.before, stack[Len(stack) - 1].todo)
  /\ UNCHANGED <<currentClass, reported, resolved>>
  /\ UNCHANGED classVars

inheritsItself(stmt) ==
  stmt.superclass.kind # "null" /\ stmt.name.lexeme = stmt.superclass.name.lexeme

\* the diagnostic on the line of the class name
inheritanceErrorsAtClassName(stmt) ==
  IF inheritsItself(stmt)
  THEN <<ResolvingError("A class can't inherit from itself.", stmt.name.line)>>
  ELSE <<>>

\* the diagnostic of visitClassStmt itself
inheritanceErrors(stmt) ==
  IF inheritsItself(stmt)
  THEN <<ResolvingError("A class can't inherit from itself.", stmt.superclass.name.line)>>
  ELSE <<>>

\* visitClassStmt up to its loop over stmt.methods
visitClassStmt ==
  /\ AtStatement("Class")
  /\ LET defined == define(declareScopes(scopes, next.name), next.name)
         subclass == next.superclass.kind # "null" /\ ~inheritsItself(next)
         super == IF subclass THEN ResolveExpr(next.superclass, defined, "Subclass")
                  ELSE NoOut
         withSuper == IF subclass THEN SetPeek(beginScope(defined), "super", TRUE)
                      ELSE defined
     IN /\ currentClass' = IF subclass THEN "Subclass" ELSE "Class"
        /\ scopes' = SetPeek(beginScope(withSuper), "this", TRUE)
        /\ reported' = reported
                         \o declareErrors(scopes, next.name)
                         \o inheritanceErrors(next)
                         \o super.reported
        /\ resolved' = resolved \o super.resolved
  /\ stack' = Append(Advanced,
                     Frame("visitClassStmt", next.methods, currentClass, next, Fields))
  /\ last' = Ran("visitClassStmt", next, Fields, Tail(top.todo))
  /\ UNCHANGED currentFunction
  /\ UNCHANGED classVars

\* one turn of the loop over stmt.methods: resolveFunction(method, declaration)
\* up to its resolve(func.body)
visitMethod ==
  /\ Len(stack) > 0 /\ top.pc = "visitClassStmt" /\ top.todo # <<>>
  /\ currentFunction' = IF next.name.lexeme = "init" THEN "Initializer" ELSE "Method"
  /\ scopes' = paramsScopes(beginScope(scopes), next.params, 1)
  /\ reported' = reported \o paramsErrors(beginScope(scopes), next.params, 1)
  /\ stack' = Append(Advanced,
                     Frame("resolveFunction", next.body, currentFunction, next, Fields))
  /\ last' = Ran("visitMethod", next, Fields, Tail(top.todo))
  /\ UNCHANGED <<currentClass, resolved>>
  /\ UNCHANGED classVars

\* visitClassStmt after its loop: endScope, endScope again if stmt.superclass
\* is not null, restore currentClass
returnFromClass ==
  /\ AtEnd("visitClassStmt")
  /\ scopes' = IF top.stmt.superclass.kind # "null"
               THEN endScope(endScope(scopes))
               ELSE endScope(scopes)
  /\ currentClass' = top.enclosing
  /\ stack' = Returned
  /\ last' = Ran("returnFromClass", top.stmt, top.before, stack[Len(stack) - 1].todo)
  /\ UNCHANGED <<currentFunction, reported, resolved>>
  /\ UNCHANGED classVars

\* resolve(statements) of the whole program returns to the driver
returnFromResolve ==
  /\ AtEnd("resolve")
  /\ stack' = Returned
  /\ last' = Ran("returnFromResolve", top.stmt, top.before, <<>>)
  /\ UNCHANGED <<scopes, currentFunction, currentClass, reported, resolved>>
  /\ UNCHANGED classVars

(***************************************************************************)
(* The programs resolved.  Every token of a statement carries the line it  *)
(* is on; an expression node is identified by its line and its position on *)
(* the line.                                                               *)
(***************************************************************************)
Node(line, k) == 10 * line + k

Var(x, line, k) == VariableExpr(Node(line, k), Token(x, line))

Read(x, line) == ExpressionStmt(Var(x, line, 1))

Method(name, line, params, body) == FunctionStmt(Token(name, line), params, body)

\* the statements that enclose `inner`, with their tokens on `line`
Enclose(kind, line, inner) ==
  CASE kind = "block" -> <<BlockStmt(inner)>>
    [] kind = "block a" -> <<BlockStmt(<<VarStmt(Token("a", line), NoExpr)>> \o inner)>>
    [] kind = "fun" ->
         <<FunctionStmt(Token("f", line), <<Token("a", line)>>, inner)>>
    [] kind = "class greet" ->
         <<ClassStmt(Token("C", line), NoExpr, <<Method("greet", line, <<>>, inner)>>)>>
    [] kind = "class init" ->
         <<ClassStmt(Token("C", line), NoExpr, <<Method("init", line, <<>>, inner)>>)>>
    [] kind = "subclass greet" ->
         <<ClassStmt(Token("C", line), Var("B", line, 1),
                     <<Method("greet", line, <<>>, inner)>>)>>
    [] kind = "subclass init" ->
         <<ClassStmt(Token("C", line), Var("B", line, 1),
                     <<Method("init", line, <<>>, inner)>>)>>
    [] kind = "class C < C" ->
         <<ClassStmt(Token("C", line), Var("C", line, 1),
                     <<Method("greet", line, <<>>, inner)>>)>>

Enclosures ==
  {"block", "block a", "fun", "class greet", "class init", "subclass greet",
   "subclass init", "class C < C"}

\* the nests of at most MaxNest enclosing statements, outermost first
Nests == UNION {[1..n -> Enclosures] : n \in 0..MaxNest}

\* the program with `body` inside the nest, the statement nest[i] on line i
RECURSIVE Plug(_, _, _)
Plug(nest, i, body) ==
  IF i > Len(nest) THEN body ELSE Enclose(nest[i], i, Plug(nest, i + 1, body))

\* the bodies, on the lines after `base`
Bodies(base) ==
  LET l1 == base + 1
      l2 == base + 2
      l3 == base + 3
      l4 == base + 4
      l5 == base + 5
  IN {
    <<Read("a", l1)>>,
    <<Read("toString", l1)>>,
    <<ExpressionStmt(AssignExpr(Node(l1, 1), Token("a", l1), Var("b", l1, 2)))>>,
    <<ExpressionStmt(AssignExpr(Node(l1, 1), Token("valueOf", l1), LiteralExpr(Node(l1, 2))))>>,
    <<ExpressionStmt(ThisExpr(Node(l1, 1), l1))>>,
    <<ExpressionStmt(SuperExpr(Node(l1, 1), l1))>>,
    <<ExpressionStmt(LogicalExpr(Node(l1, 1), SuperExpr(Node(l1, 2), l1),
                                 ThisExpr(Node(l1, 3), l1)))>>,
    <<ExpressionStmt(BinaryExpr(Node(l1, 1), Var("a", l1, 2), ThisExpr(Node(l1, 3), l1)))>>,
    <<VarStmt(Token("a", l1), NoExpr), VarStmt(Token("a", l2), NoExpr), Read("a", l3)>>,
    <<VarStmt(Token("b", l1), LiteralExpr(Node(l1, 1))), Read("b", l2)>>,
    <<VarStmt(Token("toString", l1), NoExpr)>>,
    <<VarStmt(Token("a", l1), Var("a", l2, 1))>>,
    <<VarStmt(Token("b", l1), Var("a", l2, 1))>>,
    <<BlockStmt(<<VarStmt(Token("a", l1), NoExpr),
                  BlockStmt(<<VarStmt(Token("a", l2), NoExpr), Read("a", l3)>>),
                  Read("a", l4)>>)>>,
    <<ReturnStmt(Token("return", l1), NoExpr)>>,
    <<ReturnStmt(Token("return", l1), LiteralExpr(Node(l1, 1)))>>,
    <<ReturnStmt(Token("return", l1), ThisExpr(Node(l1, 1), l1))>>,
    <<IfStmt(Var("a", l1, 1),
             ReturnStmt(Token("return", l2), LiteralExpr(Node(l2, 1))),
             PrintStmt(ThisExpr(Node(l3, 1), l3))),
      WhileStmt(SuperExpr(Node(l4, 1), l4),
                BlockStmt(<<VarStmt(Token("a", l5), Var("a", l5, 1))>>))>>,
    <<IfStmt(LiteralExpr(Node(l1, 1)),
             BlockStmt(<<ClassStmt(Token("D", l2), Var("D", l2, 1), <<>>)>>),
             NoStmt),
      ReturnStmt(Token("return", l3), Var("a", l3, 1))>>,
    <<ExpressionStmt(
        SetExpr(Node(l1, 1),
                GetExpr(Node(l1, 2), ThisExpr(Node(l1, 3), l1)),
                CallExpr(Node(l1, 4), Var("a", l1, 5),
                         <<UnaryExpr(Node(l1, 6),
                                     GroupingExpr(Node(l1, 7), Var("b", l1, 8))),
                           SuperExpr(Node(l1, 9), l1)>>)))>>,
    <<FunctionStmt(Token("g", l1), <<>>,
                   <<ReturnStmt(Token("return", l2), LiteralExpr(Node(l2, 1)))>>),
      ReturnStmt(Token("return", l3), NoExpr)>>,
    <<FunctionStmt(Token("g", l1), <<Token("a", l1), Token("a", l2)>>, <<Read("a", l3)>>)>>,
    <<ClassStmt(Token("D", l1), Var("D", l2, 1),
                <<Method("greet", l3, <<>>, <<ExpressionStmt(ThisExpr(Node(l3, 1), l3))>>)>>),
      VarStmt(Token("a", l4), NoExpr),
      Read("a", l5)>>,
    <<ClassStmt(Token("D", l1), NoExpr,
                <<Method("init", l2, <<>>,
                         <<ReturnStmt(Token("return", l2), LiteralExpr(Node(l2, 1)))>>),
                  Method("greet", l3, <<Token("a", l3)>>,
                         <<ReturnStmt(Token("return", l3), Var("a", l3, 1))>>)>>),
      ExpressionStmt(ThisExpr(Node(l4, 1), l4))>>,
    <<ClassStmt(Token("D", l1), Var("a", l2, 1),
                <<Method("greet", l3, <<>>,
                         <<ExpressionStmt(SuperExpr(Node(l3, 1), l3)),
                           ExpressionStmt(ThisExpr(Node(l3, 2), l3))>>)>>),
      ExpressionStmt(SuperExpr(Node(l4, 1), l4))>>
  }

(***************************************************************************)
(* The Resolver's specification: new Resolver(interpreter), then           *)
(* resolve(statements) on one of the programs.                             *)
(***************************************************************************)
Program(statements) == [kind |-> "Program", statements |-> statements]

NewResolver == [scopes |-> <<>>, currentFunction |-> "None", currentClass |-> "None",
                reported |-> 0, resolved |-> 0]

Init ==
  /\ scopes = <<>>
  /\ currentFunction = "None"
  /\ currentClass = "None"
  /\ \E nest \in Nests : \E body \in Bodies(Len(nest)) :
       LET program == Program(Plug(nest, 1, body))
       IN /\ stack = <<Frame("resolve", program.statements, "-", program, NewResolver)>>
          /\ last = Ran("resolve", program, NewResolver, <<>>)
  /\ reported = <<>>
  /\ resolved = <<>>
  /\ classes = <<>>
  /\ instances = <<>>
  /\ ret = [op |-> "none"]

Next ==
  \/ visitBlockStmt
  \/ returnFromBlock
  \/ visitVarStmt
  \/ visitExpressionStmt
  \/ visitPrintStmt
  \/ visitIfStmt
  \/ returnFromIf
  \/ visitWhileStmt
  \/ returnFromWhile
  \/ visitReturnStmt
  \/ visitFunctionStmt
  \/ returnFromFunction
  \/ visitClassStmt
  \/ visitMethod
  \/ returnFromClass
  \/ returnFromResolve

Spec == Init /\ [][Next]_vars

(***************************************************************************)
(* LoxClass.  A class is referred to by its index in `classes` (0 is       *)
(* null), an instance by its index in `instances`.  A LoxFunction is       *)
(* identified by the class whose table was built with it and its name.     *)
(***************************************************************************)
Null == [kind |-> "null"]

LoxFunction(owner, name, arity) ==
  [kind |-> "LoxFunction", owner |-> owner, name |-> name, arity |-> arity]

\* the value of a property inherited from Object.prototype
Inherited(key) == [kind |-> "Object.prototype", name |-> key]

\* obj[key] where `key in obj`
Get(obj, key) == IF HasOwn(obj, key) THEN obj[key] ELSE Inherited(key)

RECURSIVE findMethod(_, _, _)
findMethod(cs, c, name) ==
  IF HasProperty(cs[c].methods, name) THEN Get(cs[c].methods, name)
  ELSE IF cs[c].superclass # 0 THEN findMethod(cs, cs[c].superclass, name)
       ELSE Null

\* arity() looking for `init` in the class's own table only
arityOfOwnInit(cs, c) ==
  IF HasProperty(cs[c].methods, "init") THEN Get(cs[c].methods, "init").arity ELSE 0

arity(cs, c) ==
  LET initializer == findMethod(cs, c, "init")
  IN IF initializer = Null THEN 0 ELSE initializer.arity

\* the method tables a class is constructed with: the arity() of
\* each LoxFunction it holds
MethodTables ==
  {EmptyObject,
   [k \in {"init"} |-> 1],
   [k \in {"greet"} |-> 0],
   [k \in {"init", "greet"} |-> 2]}

\* the names looked up: declared ones, and a property of Object.prototype
LookupNames == {"init", "greet", "toString"}

ArgumentLists == {<<>>, <<"x">>}

\* what the body of an initializer may return
InitializerResults == {"nil", "x"}

\* new LoxClass(name, superclass, methods)
NewLoxClass(superclass, table) ==
  /\ Len(classes) < MaxClasses
  /\ LET c == Len(classes) + 1
     IN classes' = Append(classes,
          [name |-> c, superclass |-> superclass,
           methods |-> [k \in DOMAIN table |-> LoxFunction(c, k, table[k])]])
  /\ ret' = [op |-> "new", class |-> Len(classes) + 1]
  /\ UNCHANGED instances
  /\ UNCHANGED resolverVars

FindMethod(c, name) ==
  /\ ret' = [op |-> "findMethod", class |-> c, name |-> name,
             before |-> classes, value |-> findMethod(classes, c, name)]
  /\ UNCHANGED <<classes, instances>>
  /\ UNCHANGED resolverVars

\* call(interpreter, args); the initializer's body returns `returned`, and
\* `called` lists the invocations initializer.bind(instance).call(_, args)
Call(c, args, returned) ==
  /\ Len(instances) < MaxInstances
  /\ LET instance == Len(instances) + 1
         initializer == findMethod(classes, c, "init")
     IN /\ instances' = Append(instances, [class |-> c])
        /\ ret' = [op |-> "call", class |-> c, args |-> args,
                   before |-> Len(instances),
                   called |-> IF initializer # Null
                              THEN <<[function |-> initializer, this |-> instance,
                                      args |-> args, returned |-> returned]>>
                              ELSE <<>>,
                   value |-> instance]
  /\ UNCHANGED classes
  /\ UNCHANGED resolverVars

Arity(c) ==
  /\ ret' = [op |-> "arity", class |-> c, value |-> arity(classes, c)]
  /\ UNCHANGED <<classes, instances>>
  /\ UNCHANGED resolverVars

ClassInit ==
  /\ scopes = <<>>
  /\ currentFunction = "None"
  /\ currentClass = "None"
  /\ stack = <<>>
  /\ reported = <<>>
  /\ resolved = <<>>
  /\ last = Ran("none", Program(<<>>), NewResolver, <<>>)
  /\ classes = <<>>
  /\ instances = <<>>
  /\ ret = [op |-> "none"]

ClassNext ==
  \/ \E superclass \in 0..Len(classes), table \in MethodTables :
       NewLoxClass(superclass, table)
  \/ \E c \in 1..Len(classes), name \in LookupNames : FindMethod(c, name)
  \/ \E c \in 1..Len(classes), args \in ArgumentLists, returned \in InitializerResults :
       Call(c, args, returned)
  \/ \E c \in 1..Len(classes) : Arity(c)

ClassSpec == ClassInit /\ [][ClassNext]_vars

(***************************************************************************)
(* Properties of the Resolver                                              *)
(***************************************************************************)
\* what the last handler reported and recorded
ReportedBy == SubSeq(reported, last.before.reported + 1, Len(reported))

ResolvedBy == SubSeq(resolved, last.before.resolved + 1, Len(resolved))

Messages(errors, messages) == SelectSeq(errors, LAMBDA e : e.message \in messages)

RecordsOf(id) == SelectSeq(ResolvedBy, LAMBDA r : r.expr = id)

\* the scopes (1 is the outermost) that hold an entry for the name
Holders(s, x) == {i \in 1..Len(s) : x \in DOMAIN s[i]}

Innermost(S) == CHOOSE i \in S : \A j \in S : j <= i

\* the token an access node is resolved by
AccessName(expr) ==
  IF expr.kind \in {"Variable", "Assign"} THEN expr.name ELSE expr.keyword

\* an expression statement whose expression resolveLocal was called on
AccessResolved ==
  /\ last.op = "visitExpressionStmt"
  /\ \/ last.stmt.expression.kind \in {"Variable", "Assign", "Super"}
     \/ last.stmt.expression.kind = "This" /\ last.before.currentClass # "None"

\* C1: for an access node resolved on a scope stack of size n, resolveLocal
\* records the depth n-1-i of the innermost scope i (0-based) that holds an
\* entry for the name, and records nothing exactly when no scope holds it.
C1_DepthOfInnermostHolder ==
  AccessResolved =>
    LET expr == last.stmt.expression
        s == last.before.scopes
        held == Holders(s, AccessName(expr).lexeme)
    IN RecordsOf(expr.id) =
         IF held = {} THEN <<>>
         ELSE <<[expr |-> expr.id, depth |-> Len(s) - Innermost(held)]>>

\* the same for the names that are no property of Object.prototype
C1_DepthOfDeclaredNames ==
  (AccessResolved /\ AccessName(last.stmt.expression).lexeme \notin ObjectPrototypeKeys)
    => C1_DepthOfInnermostHolder

\* the "already declared" diagnostics of the last handler
Redeclared == Messages(ReportedBy, {"Already variable with this name in scope"})

\* C2: declaring a name that the innermost scope already holds reports
\* exactly one error, on the line of this (the second) declaration;
\* declaring a name in a freshly pushed scope reports none, whatever the
\* enclosing scopes hold; declaring at top level reports none.
C2_RedeclarationReported ==
  last.op = "visitVarStmt" =>
    LET s == last.before.scopes
        name == last.stmt.name
    IN /\ isEmpty(s) => Redeclared = <<>>
       /\ (~isEmpty(s) /\ DOMAIN peek(s) = {}) => Redeclared = <<>>
       /\ (~isEmpty(s) /\ name.lexeme \in DOMAIN peek(s)) =>
            Redeclared = <<ResolvingError("Already variable with this name in scope",
                                          name.line)>>

\* the same for the names that are no property of Object.prototype
C2_RedeclarationOfDeclaredNames ==
  (last.op = "visitVarStmt" /\ last.stmt.name.lexeme \notin ObjectPrototypeKeys)
    => C2_RedeclarationReported

\* C3: visitClassStmt on a class that names itself as superclass reports
\* exactly one error of its own, on the line of the superclass name, does
\* not resolve the superclass expression, and carries on: its loop has all
\* the methods to visit, and the caller's loop still has every statement
\* that follows the declaration.
C3_SelfInheritance ==
  (last.op = "visitClassStmt" /\ inheritsItself(last.stmt)) =>
    /\ Messages(ReportedBy, {"A class can't inherit from itself."})
         = <<ResolvingError("A class can't inherit from itself.",
                            last.stmt.superclass.name.line)>>
    /\ Len(ReportedBy) = 1 + Len(Redeclared)
    /\ ResolvedBy = <<>>
    /\ Len(stack) >= 2
    /\ top.pc = "visitClassStmt" /\ top.todo = last.stmt.methods
    /\ stack[Len(stack) - 1].todo = last.rest

\* C3 witness: a self-inheriting class inside a block or function body, with
\* a method and with statements following it
C3_Witness ==
  /\ last.op = "visitClassStmt" /\ inheritsItself(last.stmt)
  /\ last.before.scopes # <<>>
  /\ last.stmt.methods # <<>>
  /\ last.rest # <<>>
  /\ last.stmt.name.line # last.stmt.superclass.name.line

\* the kind of the function whose body the visitor is in, read off the call
\* stack: None outside every function; for the innermost resolveFunction
\* activation, Initializer or Method when visitClassStmt called it (by the
\* method's name), Function otherwise
RECURSIVE KindAt(_)
KindAt(i) ==
  IF i < 1 THEN "None"
  ELSE IF stack[i].pc # "resolveFunction" THEN KindAt(i - 1)
       ELSE IF i > 1 /\ stack[i - 1].pc = "visitClassStmt"
            THEN IF stack[i].stmt.name.lexeme = "init" THEN "Initializer" ELSE "Method"
            ELSE "Function"

ReturnMessages ==
  {"Can't return from top-level code", "Can't return a value from an initializer"}

\* C4: a return statement reports "return from top-level code" exactly when
\* it is in no function, "return a value from an initializer" exactly when
\* it has a value and is directly in a method named init, and nothing else
\* of its own; never two errors; and its value is resolved in every case.
C4_ReturnErrors ==
  last.op = "visitReturnStmt" =>
    LET kind == KindAt(Len(stack))
        value == last.stmt.value
        line == last.stmt.keyword.line
        own == Messages(ReportedBy, ReturnMessages)
    IN /\ kind = last.before.currentFunction
       /\ Len(own) <= 1
       /\ own # <<>> <=> (kind = "None" \/ (value.kind # "null" /\ kind = "Initializer"))
       /\ kind = "None" =>
            own = <<ResolvingError("Can't return from top-level code", line)>>
       /\ (value.kind # "null" /\ kind = "Initializer") =>
            own = <<ResolvingError("Can't return a value from an initializer", line)>>
       /\ (value.kind = "Variable" /\ Holders(scopes, value.name.lexeme) # {}) =>
            RecordsOf(value.id) # <<>>
       /\ value.kind = "This" =>
            IF currentClass = "None"
            THEN Messages(ReportedBy, {"Can't use 'this' outside of a class"}) # <<>>
            ELSE RecordsOf(value.id) # <<>>

\* C4 witness: a return with a value, in a function nested in an
\* initializer, that reports nothing
C4_Witness ==
  /\ last.op = "visitReturnStmt"
  /\ last.stmt.value.kind # "null"
  /\ currentFunction = "Function"
  /\ \E i \in 1..Len(stack) : KindAt(i) = "Initializer"
  /\ ReportedBy = <<>>

\* C5: `this` reports an error exactly when the class kind is None; `super`
\* reports exactly one error exactly when the class kind is not Subclass,
\* one message for None and another for Class; and for both a depth is
\* recorded for the node whenever a scope binds the keyword.
C5_ThisAndSuper ==
  (last.op = "visitExpressionStmt" /\ last.stmt.expression.kind \in {"This", "Super"}) =>
    LET expr == last.stmt.expression
        line == expr.keyword.line
        cls == last.before.currentClass
    IN /\ expr.kind = "This" =>
            ReportedBy = IF cls = "None"
                         THEN <<ResolvingError("Can't use 'this' outside of a class", line)>>
                         ELSE <<>>
       /\ expr.kind = "Super" =>
            ReportedBy =
              CASE cls = "None" ->
                     <<ResolvingError("Can't use 'super' outside of class", line)>>
                [] cls = "Class" ->
                     <<ResolvingError("Can't use 'super' in a class with no superclass",
                                      line)>>
                [] cls = "Subclass" -> <<>>
       /\ Holders(last.before.scopes, expr.keyword.lexeme) # {} =>
            Len(RecordsOf(expr.id)) = 1

\* C5 witness: `super` in a class without superclass, nested in a method of
\* a subclass: an error is reported and a depth is recorded
C5_Witness ==
  /\ last.op = "visitExpressionStmt" /\ last.stmt.expression.kind = "Super"
  /\ last.before.currentClass = "Class"
  /\ ReportedBy # <<>>
  /\ ResolvedBy # <<>>

\* a variable read: the initializer of a `var` statement (resolved on the
\* scopes as declare left them) or an expression statement
VariableRead ==
  \/ last.op = "visitVarStmt" /\ last.stmt.initializer.kind = "Variable"
  \/ last.op = "visitExpressionStmt" /\ last.stmt.expression.kind = "Variable"

ReadExpr ==
  IF last.op = "visitVarStmt" THEN last.stmt.initializer ELSE last.stmt.expression

ReadScopes ==
  IF last.op = "visitVarStmt" THEN declareScopes(last.before.scopes, last.stmt.name)
  ELSE last.before.scopes

\* the innermost scope holds the name read with status false
DeclaredNotDefined ==
  /\ ReadScopes # <<>>
  /\ ReadExpr.name.lexeme \in DOMAIN peek(ReadScopes)
  /\ peek(ReadScopes)[ReadExpr.name.lexeme] = FALSE

OwnInitializerErrors ==
  Messages(ReportedBy, {"Can't read local variable in its own initializer"})

OwnInitializerReported ==
  OwnInitializerErrors =
    IF DeclaredNotDefined
    THEN <<ResolvingError("Can't read local variable in its own initializer",
                          ReadExpr.name.line)>>
    ELSE <<>>

\* C6 as claimed: the read reports the error exactly when the innermost
\* scope holds the name with status false; then the access is not resolved
\* into the depth table; in every other case it is resolved by the search.
C6_ErrorInsteadOfResolution ==
  VariableRead =>
    /\ OwnInitializerReported
    /\ DeclaredNotDefined => RecordsOf(ReadExpr.id) = <<>>
    /\ (~DeclaredNotDefined /\ Holders(ReadScopes, ReadExpr.name.lexeme) # {}) =>
         Len(RecordsOf(ReadExpr.id)) = 1

\* C6 as amended: the read reports the error exactly when the innermost
\* scope holds the name with status false; the access is resolved by the
\* search in that case as in every other, and in that case at depth 0.
C6_ErrorAndResolution ==
  VariableRead =>
    /\ OwnInitializerReported
    /\ DeclaredNotDefined =>
         RecordsOf(ReadExpr.id) = <<[expr |-> ReadExpr.id, depth |-> 0]>>
    /\ Holders(ReadScopes, ReadExpr.name.lexeme) # {} =>
         Len(RecordsOf(ReadExpr.id)) = 1

\* C6 witness: `var a = a;` inside a scope
C6_Witness ==
  /\ VariableRead /\ DeclaredNotDefined
  /\ OwnInitializerErrors # <<>>
  /\ ResolvedBy # <<>>

\* the scope stack a statement is to leave behind: the one it found, with
\* the name a function or class declaration declares in the innermost scope
ScopesAfter(stmt, before, isMethod) ==
  IF stmt.kind \in {"Block", "If", "While"} \/ isMethod THEN before.scopes
  ELSE define(declareScopes(before.scopes, stmt.name), stmt.name)

Returns ==
  {"returnFromBlock", "returnFromFunction", "returnFromClass", "returnFromIf",
   "returnFromWhile"}

\* resolveFunction was called by the loop over the methods of a class
ReturnedToClass == Len(stack) > 0 /\ top.pc = "visitClassStmt"

\* C9: a block, a function or method, a class declaration (without
\* superclass, with one, or naming itself) and an if or while statement
\* leave the scope stack with the length and the scopes it had before the
\* statement.
C9_ScopesBalanced ==
  last.op \in Returns =>
    scopes = ScopesAfter(last.stmt, last.before,
                         last.op = "returnFromFunction" /\ ReturnedToClass)

\* the same for the statements that hold no self-inheriting class
C9_ScopesBalancedElsewhere ==
  (\A i \in 1..Len(reported) : reported[i].message # "A class can't inherit from itself.")
    => C9_ScopesBalanced

\* the kind of the class whose methods the visitor is in, read off the call
\* stack: None outside every class; for the innermost visitClassStmt
\* activation, Subclass when the class names another class as superclass
RECURSIVE ClassKindAt(_)
ClassKindAt(i) ==
  IF i < 1 THEN "None"
  ELSE IF stack[i].pc # "visitClassStmt" THEN ClassKindAt(i - 1)
       ELSE IF stack[i].stmt.superclass.kind # "null"
               /\ stack[i].stmt.superclass.name.lexeme # stack[i].stmt.name.lexeme
            THEN "Subclass"
            ELSE "Class"

\* C10: when a function declaration, a method or a class declaration has
\* been resolved, the function kind and the class kind are what they were
\* just before it; so every statement is checked under the kinds of the
\* function and the class that enclose it.
C10_KindsRestored ==
  /\ last.op \in {"returnFromFunction", "returnFromClass"} =>
       /\ currentFunction = last.before.currentFunction
       /\ currentClass = last.before.currentClass
  /\ currentFunction = KindAt(Len(stack))
  /\ currentClass = ClassKindAt(Len(stack))

\* C10 witness: a declaration nested in a method, with diagnostics reported
\* inside it, has been resolved
C10_Witness ==
  /\ last.op \in {"returnFromFunction", "returnFromClass"}
  /\ last.before.currentFunction \in {"Initializer", "Method"}
  /\ last.before.currentClass = "Subclass"
  /\ Len(reported) > last.before.reported

(***************************************************************************)
(* Properties of LoxClass                                                  *)
(***************************************************************************)
\* the superclass chain of class c, the class itself first
RECURSIVE Chain(_, _)
Chain(cs, c) == IF c = 0 THEN <<>> ELSE <<c>> \o Chain(cs, cs[c].superclass)

\* the classes of the chain of c whose own method table defines the name
Definers(cs, c, name) ==
  {i \in 1..Len(Chain(cs, c)) : name \in DOMAIN cs[Chain(cs, c)[i]].methods}

Nearest(S) == CHOOSE i \in S : \A j \in S : i <= j

\* the function stored under the name in the nearest class that defines it
NearestMethod(cs, c, name) ==
  cs[Chain(cs, c)[Nearest(Definers(cs, c, name))]].methods[name]

\* C7: findMethod returns the function stored under the name in the nearest
\* class of the chain whose own table defines it, null exactly when no
\* class of the chain defines it, and leaves every class as it was.
C7_NearestDefinition ==
  ret.op = "findMethod" =>
    /\ ret.value = IF Definers(classes, ret.class, ret.name) = {} THEN Null
                   ELSE NearestMethod(classes, ret.class, ret.name)
    /\ classes = ret.before

\* the same for the names that are no property of Object.prototype
C7_NearestDefinitionOfDeclaredNames ==
  (ret.op = "findMethod" /\ ret.name \notin ObjectPrototypeKeys) => C7_NearestDefinition

\* C8: a call creates one new instance of the class and returns it whatever
\* the initializer returns; the nearest `init` of the chain is called
\* exactly once, bound to the new instance, with the call's arguments, and
\* nothing is called when the chain has no `init`; arity() is the parameter
\* count of that same `init`, or 0 when there is none.
C8_CallAndArity ==
  /\ ret.op = "call" =>
       /\ Len(instances) = ret.before + 1
       /\ ret.value = Len(instances)
       /\ instances[ret.value] = [class |-> ret.class]
       /\ IF Definers(classes, ret.class, "init") = {}
          THEN ret.called = <<>>
          ELSE /\ Len(ret.called) = 1
               /\ ret.called[1].function = NearestMethod(classes, ret.class, "init")
               /\ ret.called[1].this = ret.value
               /\ ret.called[1].args = ret.args
               /\ arity(classes, ret.class) = ret.called[1].function.arity
  /\ ret.op = "arity" =>
       ret.value = IF Definers(classes, ret.class, "init") = {} THEN 0
                   ELSE NearestMethod(classes, ret.class, "init").arity

\* C8 witness: a second instance is created by a class whose `init` is
\* inherited, and the initializer returns a value
C8_Witness ==
  /\ ret.op = "call"
  /\ ret.value = 2
  /\ "init" \notin DOMAIN classes[ret.class].methods
  /\ ret.called # <<>>
  /\ ret.called[1].returned = "x"

=============================================================================
